---- MODULE Spec2Model ----
(***************************************************************************)
(* Tool registry and orchestration engine of recruitcrm_mcp.py:            *)
(* RecruitCRMToolRegistry (register_tool, find_relevant_tools,             *)
(* get_execution_plan) and RecruitCRMOrchestrator (create_execution_plan). *)
(* Also the cached fetch_users coroutine and the @mcp.tool() functions the *)
(* catalog describes.                                                      *)
(* Python str values are TLA+ strings, lists are sequences, and a dict is  *)
(* a record of its keys in insertion order and its key -> value function.  *)
(***************************************************************************)
EXTENDS Integers, Sequences, FiniteSets, TLC

VARIABLES tools, category_map, execution_context, registered, ret

(* fetch_users: the module global _user_map_cache, the requests sent to    *)
(* the users endpoint, and for each call its position and returned value   *)
VARIABLES user_map_cache, http_requests, pc, returned

fetch_vars == <<user_map_cache, http_requests, pc, returned>>

vars == <<tools, category_map, execution_context, registered, ret, user_map_cache, http_requests, pc, returned>>

(* Bounds of the model *)
MaxRegs == 2

MaxWords == 2

(* how many elements a caller appends to lists it was handed *)
MaxMutations == 1

(* how many calls of fetch_users the process makes *)
MaxTasks == 3

(***************************************************************************)
(* Python string primitives                                                *)
(***************************************************************************)
LowerTable ==
    [c \in {"A","B","C","D","E","F","G","H","I","J","K","L","M",
            "N","O","P","Q","R","S","T","U","V","W","X","Y","Z"} |->
       CASE c = "A" -> "a" [] c = "B" -> "b" [] c = "C" -> "c" [] c = "D" -> "d"
         [] c = "E" -> "e" [] c = "F" -> "f" [] c = "G" -> "g" [] c = "H" -> "h"
         [] c = "I" -> "i" [] c = "J" -> "j" [] c = "K" -> "k" [] c = "L" -> "l"
         [] c = "M" -> "m" [] c = "N" -> "n" [] c = "O" -> "o" [] c = "P" -> "p"
         [] c = "Q" -> "q" [] c = "R" -> "r" [] c = "S" -> "s" [] c = "T" -> "t"
         [] c = "U" -> "u" [] c = "V" -> "v" [] c = "W" -> "w" [] c = "X" -> "x"
         [] c = "Y" -> "y" [] c = "Z" -> "z"]

CharAt(s, i) == SubSeq(s, i, i)

UpperChars == DOMAIN LowerTable

LowerChar(c) == IF c \in UpperChars THEN LowerTable[c] ELSE c

(* the characters lo..hi of s, each lowered (halving keeps the recursion shallow) *)
RECURSIVE LowerRange(_, _, _)
LowerRange(s, lo, hi) ==
    IF lo > hi THEN ""
    ELSE IF lo = hi THEN LowerChar(CharAt(s, lo))
    ELSE LET mid == (lo + hi) \div 2
         IN LowerRange(s, lo, mid) \o LowerRange(s, mid + 1, hi)

(* str.lower() *)
Lower(s) == LowerRange(s, 1, Len(s))

(* the characters str.split() with no argument treats as separators *)
Whitespace == {" ", "\t", "\n", "\r", "\f"}

Min(S) == CHOOSE x \in S : \A y \in S : x <= y

(* the words that start at the positions starts, in increasing order; each *)
(* word runs to the first of the positions stops at or after its start     *)
RECURSIVE WordsAt(_, _, _)
WordsAt(s, starts, stops) ==
    IF starts = {} THEN <<>>
    ELSE LET start == Min(starts)
             stop == Min({j \in stops : j >= start})
         IN <<SubSeq(s, start, stop)>> \o WordsAt(s, starts \ {start}, stops)

(* str.split(): the maximal runs of non-whitespace characters, in order *)
Split(s) ==
    LET sep == [j \in 1..Len(s) |-> CharAt(s, j) \in Whitespace]
        starts == {j \in 1..Len(s) : ~sep[j] /\ (j = 1 \/ sep[j - 1])}
        stops == {j \in 1..Len(s) : ~sep[j] /\ (j = Len(s) \/ sep[j + 1])}
    IN WordsAt(s, starts, stops)

(* mutant of Contains: the operands of `in` are swapped *)
ContainsSwapped(s, sub) ==
    \/ Len(s) = 0
    \/ \E i \in 1..(Len(sub) - Len(s) + 1) : SubSeq(sub, i, i + Len(s) - 1) = s

(* the Python expression `sub in s` on two strings *)
Contains(s, sub) ==
    \/ Len(sub) = 0
    \/ \E i \in 1..(Len(s) - Len(sub) + 1) : SubSeq(s, i, i + Len(sub) - 1) = sub

(* set(list) *)
ToSet(seq) == {seq[i] : i \in DOMAIN seq}

(* seq[:limit], Python slice semantics: a negative limit counts from the end *)
SliceTo(seq, limit) ==
    LET n == Len(seq)
        stop == IF limit >= 0 THEN (IF limit < n THEN limit ELSE n)
                ELSE (IF n + limit > 0 THEN n + limit ELSE 0)
    IN SubSeq(seq, 1, stop)

(***************************************************************************)
(* dict, with insertion order                                              *)
(***************************************************************************)
EmptyDict == [keys |-> <<>>, vals |-> <<>>]

DictHas(d, k) == \E i \in DOMAIN d.keys : d.keys[i] = k

DictGet(d, k) == d.vals[k]

(* mutant of DictSet: an assignment to an existing key moves the key last *)
DictSetMovesKey(d, k, v) ==
    LET others == SelectSeq(d.keys, LAMBDA x : x # k)
    IN [keys |-> Append(others, k),
        vals |-> [x \in ToSet(d.keys) \cup {k} |-> IF x = k THEN v ELSE d.vals[x]]]

(* mutant of DictSet: an assignment to an existing key is dropped *)
DictSetKeepsFirst(d, k, v) ==
    IF DictHas(d, k)
    THEN d
    ELSE [keys |-> Append(d.keys, k),
          vals |-> [x \in ToSet(d.keys) \cup {k} |-> IF x = k THEN v ELSE d.vals[x]]]

(* d[k] = v: a new key goes last, an existing key keeps its position *)
DictSet(d, k, v) ==
    IF DictHas(d, k)
    THEN [keys |-> d.keys, vals |-> [d.vals EXCEPT ![k] = v]]
    ELSE [keys |-> Append(d.keys, k),
          vals |-> [x \in ToSet(d.keys) \cup {k} |-> IF x = k THEN v ELSE d.vals[x]]]

(* d.values() *)
DictValues(d) == [i \in DOMAIN d.keys |-> d.vals[d.keys[i]]]

(***************************************************************************)
(* ToolCategory, ToolMetadata                                              *)
(***************************************************************************)
ToolCategory == {"search", "reports", "actions", "helpers", "communication"}

ToolMetadata(name, category, description, keywords, required_params, optional_params, helper_tools, requires_confirmation, typical_usage_pattern) ==
    [name |-> name, category |-> category, description |-> description,
     keywords |-> keywords, required_params |-> required_params,
     optional_params |-> optional_params, helper_tools |-> helper_tools,
     requires_confirmation |-> requires_confirmation,
     typical_usage_pattern |-> typical_usage_pattern]

(* str.replace(old, new) for a non-empty old: leftmost non-overlapping matches *)
RECURSIVE ReplaceFrom(_, _, _, _)
ReplaceFrom(s, i, old, new) ==
    LET hits == {j \in i..(Len(s) - Len(old) + 1) : SubSeq(s, j, j + Len(old) - 1) = old}
    IN IF hits = {} THEN SubSeq(s, i, Len(s))
       ELSE SubSeq(s, i, Min(hits) - 1) \o new
            \o ReplaceFrom(s, Min(hits) + Len(old), old, new)

Replace(s, old, new) == ReplaceFrom(s, 1, old, new)

(***************************************************************************)
(* RecruitCRMToolRegistry: registration                                    *)
(***************************************************************************)
(* the registry as __init__ leaves it before _register_existing_tools *)
EmptyRegistry ==
    [tools |-> EmptyDict, category_map |-> [c \in ToolCategory |-> <<>>]]

(* the two assignments of register_tool, on a registry value *)
RegisterInto(reg, metadata) ==
    [tools |-> DictSet(reg.tools, metadata.name, metadata),
     category_map |-> [reg.category_map EXCEPT ![metadata.category] =
                          Append(@, metadata.name)]]

RECURSIVE RegisterAll(_, _)
RegisterAll(reg, metas) ==
    IF metas = <<>> THEN reg
    ELSE RegisterAll(RegisterInto(reg, Head(metas)), Tail(metas))

(* the nine ToolMetadata literals of _register_existing_tools, in call order *)
MainTools ==
    << ToolMetadata("global_search", "search",
         "Search across candidates, contacts, companies, jobs, or deals by keyword",
         <<"search", "find", "lookup", "candidates", "contacts", "companies", "jobs">>,
         <<"search">>,
         <<"candidates", "contacts", "companies", "jobs", "deals">>,
         <<>>, FALSE,
         "Use when user wants to find entities by name/keyword"),
       ToolMetadata("boolean_search_candidates", "search",
         "Advanced boolean search for candidates with complex queries",
         <<"boolean", "advanced search", "candidates", "skills", "AND", "OR">>,
         <<"keyword">>,
         <<"page", "size", "selectedOptions">>,
         <<"boolean_search_count">>, FALSE,
         "Use for complex skill-based or multi-criteria candidate searches"),
       ToolMetadata("advanced_search_candidates", "search",
         "Filter-based advanced candidate search with groups",
         <<"advanced search", "filter", "candidates", "criteria">>,
         <<"groupFilterList">>,
         <<"groupJoinOperator", "page", "size">>,
         <<"get_candidate_search_fields">>, FALSE,
         "Use for structured filtering with specific field criteria"),
       ToolMetadata("candidate_job_assignment_search", "reports",
         "Search for candidates by job assignment, pipeline stage, recruiter, company, job, etc.",
         <<"reports", "candidates", "analytics", "pipeline", "placed", "assigned">>,
         <<"stage_from", "stage_to">>,
         <<"hiring_stage", "updated_by", "job_or_keywords", "company">>,
         <<"get_available_hiring_stages", "get_available_users">>, FALSE,
         "Use for candidate job assignment, pipeline, and placement searches"),
       ToolMetadata("get_team_performance_report", "reports",
         "Get KPI and performance metrics for recruiters or teams",
         <<"performance", "kpi", "metrics", "team", "recruiter", "stats">>,
         <<"recruiter_names_or_ids", "kpis_to_include", "from_date", "to_date">>,
         <<"team_ids">>,
         <<"get_active_recruiters", "get_available_kpis">>, FALSE,
         "Use for recruiter performance analysis and KPI tracking"),
       ToolMetadata("create_meeting", "actions",
         "Create a meeting or appointment in RecruitCRM",
         <<"schedule", "meeting", "appointment", "interview", "call">>,
         <<"appointment">>,
         <<"action_source">>,
         <<"global_search", "get_available_users", "create_gmeet_link",
           "check_calendar_meetings">>, TRUE,
         "Search entity → Check calendar → Create gmeet → Create meeting"),
       ToolMetadata("create_note", "actions",
         "Create a note on candidate, job, contact, or company",
         <<"note", "add note", "create note", "comment", "log">>,
         <<"relatedto", "relatedtotypeid", "description", "relatedtoname">>,
         <<"relatedtocompany", "userInNote", "notetype">>,
         <<"global_search", "get_note_types">>, FALSE,
         "Search entity → Get note types (if needed) → Create note"),
       ToolMetadata("add_to_hotlist", "actions",
         "Add one or more entity IDs to one or more hotlists by name for a given entity type. Returns only the 'message' field.",
         <<"hotlist", "add", "candidates", "contacts", "companies", "jobs", "deals">>,
         <<"entity_name", "selectedrows", "name">>,
         <<>>,
         <<>>, TRUE,
         "Search entity → Get hotlist name → Add to hotlist"),
       ToolMetadata("send_email", "communication",
         "Send email to candidates, contacts, or other entities",
         <<"email", "send", "message", "communicate", "outreach">>,
         <<"email">>,
         <<"is_send", "linked_email_type">>,
         <<"global_search", "preview_email">>, TRUE,
         "Search recipients → Preview email → Confirm → Send email") >>

(* the local list helper_tools of _register_existing_tools: <<name, description>> *)
HelperToolList ==
    << <<"get_available_hiring_stages", "Get list of hiring pipeline stages">>,
       <<"get_available_users", "Get list of active users/recruiters">>,
       <<"get_available_kpis", "Get list of available KPIs for reports">>,
       <<"get_note_types", "Get list of note types">>,
       <<"get_candidate_search_fields", "Get searchable candidate fields">>,
       <<"create_gmeet_link", "Generate Google Meet link">>,
       <<"check_calendar_meetings", "Check calendar availability">>,
       <<"preview_email", "Preview email before sending">>,
       <<"get_current_time_and_timezone", "Get current time and timezone info">>,
       <<"boolean_search_count", "Get count for boolean search">> >>

(* the ToolMetadata the closing loop of _register_existing_tools builds *)
HelperMetadata(tool_name, desc) ==
    ToolMetadata(tool_name, "helpers", desc,
                 <<Replace(Replace(tool_name, "get_", ""), "_", " ")>>,
                 <<>>, <<>>, <<>>, FALSE, "")

(* every register_tool call of _register_existing_tools, in order *)
ExistingTools ==
    MainTools \o [i \in DOMAIN HelperToolList |->
                    HelperMetadata(HelperToolList[i][1], HelperToolList[i][2])]

(* tool_registry = RecruitCRMToolRegistry() *)
BuiltinRegistry == RegisterAll(EmptyRegistry, ExistingTools)

(***************************************************************************)
(* RecruitCRMToolRegistry.find_relevant_tools                              *)
(***************************************************************************)
(* the local list action_words *)
action_words ==
    <<"create", "add", "schedule", "send", "search", "find", "get", "show">>

(* mutant of KeywordScore: the loop stops at the first keyword found *)
RECURSIVE KeywordScoreFirstHit(_, _)
KeywordScoreFirstHit(keywords, query_lower) ==
    IF keywords = <<>> THEN 0
    ELSE IF Contains(query_lower, Lower(Head(keywords))) THEN 3
         ELSE KeywordScoreFirstHit(Tail(keywords), query_lower)

(* for keyword in tool.keywords: if keyword.lower() in query_lower: score += 3 *)
RECURSIVE KeywordScore(_, _)
KeywordScore(keywords, query_lower) ==
    IF keywords = <<>> THEN 0
    ELSE (IF Contains(query_lower, Lower(Head(keywords))) THEN 3 ELSE 0)
         + KeywordScore(Tail(keywords), query_lower)

(* len(set(desc_words) & set(query_words)) *)
DescriptionScore(description, query_lower) ==
    LET desc_words == Split(Lower(description))
        query_words == Split(query_lower)
        common_words == ToSet(desc_words) \cap ToSet(query_words)
    IN Cardinality(common_words)

(* mutant of ActionScore: an action word adds 1, as a description word does *)
RECURSIVE ActionScoreUnweighted(_, _, _)
ActionScoreUnweighted(words, name, query_lower) ==
    IF words = <<>> THEN 0
    ELSE (IF Contains(query_lower, Head(words)) /\ Contains(Lower(name), Head(words))
          THEN 1 ELSE 0)
         + ActionScoreUnweighted(Tail(words), name, query_lower)

(* for word in action_words: if word in query_lower and word in name.lower(): += 5 *)
RECURSIVE ActionScore(_, _, _)
ActionScore(words, name, query_lower) ==
    IF words = <<>> THEN 0
    ELSE (IF Contains(query_lower, Head(words)) /\ Contains(Lower(name), Head(words))
          THEN 5 ELSE 0)
         + ActionScore(Tail(words), name, query_lower)

(* the value of score at the end of one iteration of the scoring loop *)
Score(tool, user_query) ==
    LET query_lower == Lower(user_query)
    IN KeywordScore(tool.keywords, query_lower)
       + DescriptionScore(tool.description, query_lower)
       + ActionScore(action_words, tool.name, query_lower)

(* mutant of IsPositive: tools of score 0 are kept *)
IsNotNegative(scored) == scored[1] >= 0

IsPositive(scored) == scored[1] > 0

(* scored_tools after the loop: <<score, tool>> for score > 0, in dict order *)
ScoreLoop(values, user_query) ==
    SelectSeq([i \in DOMAIN values |-> <<Score(values[i], user_query), values[i]>>],
              IsPositive)

(* mutant of InsertDesc: x goes before the elements of equal key *)
RECURSIVE InsertDescUnstable(_, _)
InsertDescUnstable(sorted, x) ==
    IF sorted = <<>> THEN <<x>>
    ELSE IF Head(sorted)[1] > x[1]
         THEN <<Head(sorted)>> \o InsertDescUnstable(Tail(sorted), x)
         ELSE <<x>> \o sorted

(* one insertion of a stable descending sort: x goes after every element *)
(* whose key is >= its own                                               *)
RECURSIVE InsertDesc(_, _)
InsertDesc(sorted, x) ==
    IF sorted = <<>> THEN <<x>>
    ELSE IF Head(sorted)[1] >= x[1]
         THEN <<Head(sorted)>> \o InsertDesc(Tail(sorted), x)
         ELSE <<x>> \o sorted

(* list.sort(key=lambda x: x[0], reverse=True): stable, descending by score *)
RECURSIVE SortDesc(_)
SortDesc(seq) ==
    IF seq = <<>> THEN <<>>
    ELSE InsertDesc(SortDesc(SubSeq(seq, 1, Len(seq) - 1)), seq[Len(seq)])

(* scored_tools after the sort *)
ScoredTools(user_query) == SortDesc(ScoreLoop(DictValues(tools), user_query))

find_relevant_tools(user_query, limit) ==
    LET top == SliceTo(ScoredTools(user_query), limit)
    IN [i \in DOMAIN top |-> top[i][2]]

(***************************************************************************)
(* RecruitCRMToolRegistry.get_execution_plan                               *)
(***************************************************************************)
(* the plan dict get_execution_plan builds for a tool and its execution order *)
PlanDict(primary_tool, tool, execution_order) ==
    [primary_tool |-> primary_tool,
     helper_tools |-> tool.helper_tools,
     requires_confirmation |-> tool.requires_confirmation,
     execution_order |-> execution_order,
     typical_pattern |-> tool.typical_usage_pattern]

(* mutant of HelperEntry: the helper entry carries the tool's confirmation flag *)
HelperEntryConfirming(helper, primary_tool, tool) ==
    [tool |-> helper,
     purpose |-> "Get required data for " \o primary_tool,
     required |-> TRUE,
     requires_confirmation |-> tool.requires_confirmation]

(* the dict appended for one helper of tool *)
HelperEntry(helper, primary_tool, tool) ==
    [tool |-> helper,
     purpose |-> "Get required data for " \o primary_tool,
     required |-> TRUE]

(* mutant of PrimaryEntry: the primary entry never asks for confirmation *)
PrimaryEntryUnconfirmed(primary_tool, tool) ==
    [tool |-> primary_tool,
     purpose |-> "Execute main action",
     required |-> TRUE,
     requires_confirmation |-> FALSE]

(* the dict appended for the primary tool *)
PrimaryEntry(primary_tool, tool) ==
    [tool |-> primary_tool,
     purpose |-> "Execute main action",
     required |-> TRUE,
     requires_confirmation |-> tool.requires_confirmation]

(* mutant of ToolNotFound: an unknown name gets a plan of its own single step *)
ToolNotFoundAsPlan(primary_tool) ==
    [primary_tool |-> primary_tool,
     helper_tools |-> <<>>,
     requires_confirmation |-> FALSE,
     execution_order |-> <<[tool |-> primary_tool, purpose |-> "Execute main action",
                            required |-> TRUE, requires_confirmation |-> FALSE]>>,
     typical_pattern |-> ""]

(* return {"error": f"Tool {primary_tool} not found"} *)
ToolNotFound(primary_tool) == [error |-> "Tool " \o primary_tool \o " not found"]

get_execution_plan(primary_tool, user_query) ==
    IF ~DictHas(tools, primary_tool)
    THEN ToolNotFound(primary_tool)
    ELSE LET tool == DictGet(tools, primary_tool)
             helpers == [i \in DOMAIN tool.helper_tools |->
                           HelperEntry(tool.helper_tools[i], primary_tool, tool)]
         IN PlanDict(primary_tool, tool,
                     Append(helpers, PrimaryEntry(primary_tool, tool)))

(***************************************************************************)
(* ExecutionStep, RecruitCRMOrchestrator.create_execution_plan             *)
(***************************************************************************)
(* mutant of GetRequiresConfirmation: the default is returned for every step *)
GetRequiresConfirmationDefault(step_info) == FALSE

(* step_info.get("requires_confirmation", False) *)
GetRequiresConfirmation(step_info) ==
    IF "requires_confirmation" \in DOMAIN step_info
    THEN step_info.requires_confirmation
    ELSE FALSE

(* mutant of ExecutionStep: requires_confirmation stays as __init__ sets it *)
ExecutionStepUnconfirmed(step_info) ==
    [tool_name |-> step_info.tool,
     params |-> <<>>,
     purpose |-> step_info.purpose,
     store_as |-> step_info.tool \o "_result",
     requires_confirmation |-> FALSE]

(* ExecutionStep(...) followed by the assignment of requires_confirmation *)
ExecutionStep(step_info) ==
    [tool_name |-> step_info.tool,
     params |-> <<>>,
     purpose |-> step_info.purpose,
     store_as |-> step_info.tool \o "_result",
     requires_confirmation |-> GetRequiresConfirmation(step_info)]

(* plan_info.get("execution_order", []) *)
GetExecutionOrder(plan_info) ==
    IF "execution_order" \in DOMAIN plan_info THEN plan_info.execution_order ELSE <<>>

(* Optional[str]: None is <<>>, a supplied string s is <<s>> *)
None == <<>>

Some(s) == <<s>>

(* mutant of Truthy: the test is `primary_tool is not None` *)
TruthyNotNone(opt) == opt # None

(* the Python truth value of an Optional[str]: None and "" are false *)
Truthy(opt) == opt # None /\ opt[1] # ""

(* the steps built from the plan of a chosen primary tool *)
StepsFor(primary_tool, user_query) ==
    LET plan_info == get_execution_plan(primary_tool, user_query)
        order == GetExecutionOrder(plan_info)
    IN [i \in DOMAIN order |-> ExecutionStep(order[i])]

(* mutant of NoRelevantTool: with no relevant tool the first tool is planned *)
NoRelevantToolFallback(user_query) == StepsFor(tools.keys[1], user_query)

(* if not relevant_tools: return [] *)
NoRelevantTool(user_query) == <<>>

create_execution_plan(user_query, primary_tool) ==
    IF ~Truthy(primary_tool)
    THEN LET relevant_tools == find_relevant_tools(user_query, 1)
         IN IF relevant_tools = <<>> THEN NoRelevantTool(user_query)
            ELSE StepsFor(relevant_tools[1].name, user_query)
    ELSE StepsFor(primary_tool[1], user_query)

(***************************************************************************)
(* RecruitCRMToolRegistry.get_tools_by_category                            *)
(***************************************************************************)
(* mutant of get_tools_by_category: each name of the category is listed once *)
get_tools_by_category_distinct(category) ==
    LET names == category_map[category]
        firsts == SelectSeq([i \in DOMAIN names |-> <<i, names[i]>>],
                            LAMBDA p : \A j \in 1..(p[1] - 1) : names[j] # p[2])
    IN [i \in DOMAIN firsts |-> DictGet(tools, firsts[i][2])]

(* [self.tools[name] for name in self.category_map[category]] *)
get_tools_by_category(category) ==
    [i \in DOMAIN category_map[category] |-> DictGet(tools, category_map[category][i])]

(***************************************************************************)
(* RecruitCRMOrchestrator._analyze_query_intent, _extract_time_references  *)
(***************************************************************************)
(* the local dict intent_keywords, in insertion order: <<intent, keywords>> *)
intent_keywords ==
    << <<"search", <<"find", "search", "show", "list", "get", "who", "which">> >>,
       <<"create", <<"create", "add", "make", "schedule", "send">> >>,
       <<"report", <<"report", "analytics", "how many", "count", "performance",
                     "metrics">> >>,
       <<"email", <<"email", "send", "message", "contact", "reach out">> >>,
       <<"meeting", <<"meeting", "schedule", "appointment", "interview", "call">> >> >>

(* the local list time_keywords *)
time_keywords ==
    <<"yesterday", "today", "tomorrow", "week", "month", "year", "last", "this", "next">>

(* mutant of QueryLower: the query is matched as typed *)
QueryAsTyped(query) == query

(* query_lower = query.lower() *)
QueryLower(query) == Lower(query)

(* mutant of AnyKeywordIn: a keyword counts only as a whole word of the query *)
AnyKeywordIsWord(keywords, query_lower) ==
    \E i \in DOMAIN keywords : keywords[i] \in ToSet(Split(query_lower))

(* any(keyword in query_lower for keyword in keywords) *)
AnyKeywordIn(keywords, query_lower) ==
    \E i \in DOMAIN keywords : Contains(query_lower, keywords[i])

(* detected_intents after the loop over intent_keywords.items() *)
DetectedIntents(query_lower) ==
    LET hit == SelectSeq(intent_keywords, LAMBDA e : AnyKeywordIn(e[2], query_lower))
    IN [i \in DOMAIN hit |-> hit[i][1]]

(* mutant of extract_time_references: the loop stops at the first match *)
extract_first_time_reference(query) ==
    SliceTo(SelectSeq(time_keywords, LAMBDA keyword : Contains(query, keyword)), 1)

(* time_refs after the loop over time_keywords *)
extract_time_references(query) ==
    SelectSeq(time_keywords, LAMBDA keyword : Contains(query, keyword))

(* mutant of Complexity: two detected intents still count as low *)
ComplexityFromThree(detected_intents) ==
    IF Len(detected_intents) > 2 THEN "high" ELSE "low"

(* mutant of Complexity: one detected intent already counts as high *)
ComplexityFromOne(detected_intents) ==
    IF Len(detected_intents) >= 1 THEN "high" ELSE "low"

(* "high" if len(detected_intents) > 1 else "low" *)
Complexity(detected_intents) ==
    IF Len(detected_intents) > 1 THEN "high" ELSE "low"

analyze_query_intent(query) ==
    LET query_lower == QueryLower(query)
        detected_intents == DetectedIntents(query_lower)
        entities ==
            [candidates |-> Contains(query_lower, "candidate") \/ Contains(query_lower, "people"),
             jobs |-> Contains(query_lower, "job") \/ Contains(query_lower, "position"),
             companies |-> Contains(query_lower, "company") \/ Contains(query_lower, "client"),
             time_range |-> extract_time_references(query_lower)]
    IN [intents |-> detected_intents,
        entities |-> entities,
        complexity |-> Complexity(detected_intents)]

(***************************************************************************)
(* RecruitCRMOrchestrator.get_tool_suggestions_for_query                   *)
(***************************************************************************)
(* the dict tool_suggestion built for one relevant tool *)
ToolSuggestion(tool, user_query) ==
    [tool_name |-> tool.name,
     category |-> tool.category,
     description |-> tool.description,
     required_params |-> tool.required_params,
     helper_tools |-> tool.helper_tools,
     requires_confirmation |-> tool.requires_confirmation,
     execution_plan |-> get_execution_plan(tool.name, user_query)]

(* mutant of RelevantForSuggestions: the default limit of 5 is used *)
RelevantForSuggestionsDefault(user_query) == find_relevant_tools(user_query, 5)

(* relevant_tools = self.registry.find_relevant_tools(user_query, limit=3) *)
RelevantForSuggestions(user_query) == find_relevant_tools(user_query, 3)

get_tool_suggestions_for_query(user_query) ==
    LET relevant_tools == RelevantForSuggestions(user_query)
    IN [primary_suggestions |->
            [i \in DOMAIN relevant_tools |-> ToolSuggestion(relevant_tools[i], user_query)],
        query_analysis |-> analyze_query_intent(user_query),
        execution_guidance |-> ""]

(***************************************************************************)
(* The functions the server exposes with @mcp.tool()                       *)
(***************************************************************************)
(* each decorated function with its parameters that have no default, in    *)
(* the order of the file                                                   *)
ExposedTools ==
    { [name |-> "candidate_job_assignment_search",
       required |-> <<"stage_from", "stage_to">>],
      [name |-> "get_available_hiring_stages", required |-> <<>>],
      [name |-> "get_available_users", required |-> <<>>],
      [name |-> "get_available_kpis", required |-> <<>>],
      [name |-> "get_active_recruiters", required |-> <<>>],
      [name |-> "get_team_performance_report",
       required |-> <<"recruiter_names_or_ids", "kpis_to_include",
                      "from_date", "to_date">>],
      [name |-> "global_search", required |-> <<"search">>],
      [name |-> "add_to_hotlist", required |-> <<"entity_name", "selectedrows", "name">>],
      [name |-> "create_meeting", required |-> <<"appointment">>],
      [name |-> "create_gmeet_link", required |-> <<>>],
      [name |-> "check_calendar_meetings",
       required |-> <<"user_ids", "startDate", "endDate">>],
      [name |-> "get_current_time_and_timezone", required |-> <<>>],
      [name |-> "preview_email", required |-> <<"email">>],
      [name |-> "send_email", required |-> <<"email">>],
      [name |-> "create_note",
       required |-> <<"relatedto", "relatedtotypeid", "description", "relatedtoname">>],
      [name |-> "get_note_types", required |-> <<>>],
      [name |-> "boolean_search_count", required |-> <<"keyword">>],
      [name |-> "boolean_search_candidates", required |-> <<"keyword">>],
      [name |-> "get_candidate_search_fields", required |-> <<>>],
      [name |-> "advanced_search_candidates", required |-> <<"groupFilterList">>] }

(***************************************************************************)
(* fetch_users                                                             *)
(***************************************************************************)
(* max(S) *)
Max(S) == CHOOSE x \in S : \A y \in S : x >= y

(* s.strip(): s without its leading and trailing whitespace *)
Strip(s) ==
    LET inner == {i \in 1..Len(s) : CharAt(s, i) \notin Whitespace}
    IN IF inner = {} THEN "" ELSE SubSeq(s, Min(inner), Max(inner))

(* user.get("name", "").strip() *)
UserName(user) == IF "name" \in DOMAIN user THEN Strip(user.name) ELSE ""

(* user.get("userstatus") == 0 and name and user.get("id") is not None *)
IsListedUser(user) ==
    /\ "userstatus" \in DOMAIN user
    /\ user.userstatus = 0
    /\ UserName(user) # ""
    /\ "id" \in DOMAIN user

(* user_map after the loop over data: name.lower() -> id for active users *)
RECURSIVE UserMap(_, _)
UserMap(user_map, data) ==
    IF data = <<>> THEN user_map
    ELSE UserMap(IF IsListedUser(Head(data))
                 THEN DictSet(user_map, Lower(UserName(Head(data))), Head(data).id)
                 ELSE user_map,
                 Tail(data))

(* the calls of fetch_users the process makes, each a coroutine *)
Tasks == 1..MaxTasks

(***************************************************************************)
(* Inputs of the calls                                                     *)
(***************************************************************************)
(* metadata handed to register_tool after construction: a catalog name     *)
(* registered again with another category, flag, helper list, description  *)
(* and no keywords, and a new confirming tool with two helpers, one of     *)
(* them unregistered, and the same keyword twice                           *)
RegisterInputs ==
    { ToolMetadata("create_meeting", "communication",
                   "Book a meeting", <<>>, <<"appointment">>, <<>>,
                   <<"global_search">>, FALSE, ""),
      ToolMetadata("send_offer", "communication",
                   "Send email to candidates, contacts, or other entities",
                   <<"Send", "send">>,
                   <<"offer">>, <<>>,
                   <<"preview_email", "no_such_helper">>, TRUE,
                   "Preview, confirm, send") }

Queries ==
    { "",
      "xyz",
      "create meeting with John",
      "Show team KPI stats",
      "Find CANDIDATES by job",
      "send email to  candidates\tor contacts" }

(* the limits the callers pass (1, 3, the default 5) and their neighbours *)
Limits == {-1, 0, 1, 3, 5}

(* names asked of get_execution_plan and create_execution_plan *)
ToolNames == ToSet(tools.keys) \cup {"no_such_tool", "get_active_recruiters", ""}

(* names handed to create_execution_plan as primary_tool *)
PrimaryTools ==
    {"create_meeting", "send_email", "send_offer", "get_note_types", "no_such_tool", ""}

(* the words the queries handed to _analyze_query_intent are made of *)
IntentWords ==
    {"Schedule", "send", "how", "many", "find", "last", "year", "this", "Next",
     "people", "xyz"}

(* the phrases of at most n words, the words joined by single spaces *)
RECURSIVE PhrasesOf(_)
PhrasesOf(n) ==
    IF n = 0 THEN {""}
    ELSE LET shorter == PhrasesOf(n - 1)
         IN shorter \cup {IF p = "" THEN w ELSE p \o " " \o w :
                             p \in shorter, w \in IntentWords}

(* queries handed to _analyze_query_intent *)
IntentQueries ==
    PhrasesOf(MaxWords) \cup {"How many placements did Sean make last year?"}

(* ret while the caller holds no result *)
NoResult == [op |-> "none"]

(***************************************************************************)
(* State machine                                                           *)
(***************************************************************************)
(* the module-level tool_registry and orchestrator, as constructed *)
Init ==
    /\ tools = BuiltinRegistry.tools
    /\ category_map = BuiltinRegistry.category_map
    /\ execution_context = EmptyDict
    /\ registered = ExistingTools
    /\ ret = NoResult
    /\ user_map_cache = None
    /\ http_requests = 0
    /\ pc = [t \in Tasks |-> "idle"]
    /\ returned = [t \in Tasks |-> None]

register_tool(metadata) ==
    /\ ret = NoResult
    /\ Len(registered) < Len(ExistingTools) + MaxRegs
    /\ tools' = RegisterInto([tools |-> tools, category_map |-> category_map],
                             metadata).tools
    /\ category_map' = RegisterInto([tools |-> tools, category_map |-> category_map],
                                    metadata).category_map
    /\ registered' = Append(registered, metadata)
    /\ ret' = [op |-> "register_tool", metadata |-> metadata]
    /\ UNCHANGED <<execution_context, fetch_vars>>

CallFindRelevantTools(user_query, limit) ==
    /\ ret = NoResult
    /\ ret' = [op |-> "find_relevant_tools", user_query |-> user_query,
               limit |-> limit, value |-> find_relevant_tools(user_query, limit)]
    /\ UNCHANGED <<tools, category_map, execution_context, registered, fetch_vars>>

CallGetExecutionPlan(primary_tool) ==
    /\ ret = NoResult
    /\ ret' = [op |-> "get_execution_plan", primary_tool |-> primary_tool,
               value |-> get_execution_plan(primary_tool, "")]
    /\ UNCHANGED <<tools, category_map, execution_context, registered, fetch_vars>>

(* mutant of CallCreateExecutionPlan: the call records its query in the *)
(* orchestrator's execution_context                                    *)
CallCreateExecutionPlanRecording(user_query, primary_tool) ==
    /\ ret = NoResult
    /\ ret' = [op |-> "create_execution_plan", user_query |-> user_query,
               primary_tool |-> primary_tool,
               value |-> create_execution_plan(user_query, primary_tool)]
    /\ execution_context' = DictSet(execution_context, "last_query", user_query)
    /\ UNCHANGED <<tools, category_map, registered, fetch_vars>>

CallCreateExecutionPlan(user_query, primary_tool) ==
    /\ ret = NoResult
    /\ ret' = [op |-> "create_execution_plan", user_query |-> user_query,
               primary_tool |-> primary_tool,
               value |-> create_execution_plan(user_query, primary_tool)]
    /\ UNCHANGED <<tools, category_map, execution_context, registered, fetch_vars>>

CallGetToolsByCategory(category) ==
    /\ ret = NoResult
    /\ ret' = [op |-> "get_tools_by_category", category |-> category,
               value |-> get_tools_by_category(category)]
    /\ UNCHANGED <<tools, category_map, execution_context, registered, fetch_vars>>

CallGetToolSuggestions(user_query) ==
    /\ ret = NoResult
    /\ ret' = [op |-> "get_tool_suggestions_for_query", user_query |-> user_query,
               value |-> get_tool_suggestions_for_query(user_query)]
    /\ UNCHANGED <<tools, category_map, execution_context, registered, fetch_vars>>

CallAnalyzeQueryIntent(query) ==
    /\ ret = NoResult
    /\ ret' = [op |-> "analyze_query_intent", query |-> query,
               value |-> analyze_query_intent(query)]
    /\ UNCHANGED <<tools, category_map, execution_context, registered, fetch_vars>>

(* the caller takes the returned value; the next call starts from here *)
TakeResult ==
    /\ ret # NoResult
    /\ ret' = NoResult
    /\ UNCHANGED <<tools, category_map, execution_context, registered, fetch_vars>>

Next ==
    \/ \E metadata \in RegisterInputs : register_tool(metadata)
    \/ \E user_query \in Queries, limit \in Limits :
          CallFindRelevantTools(user_query, limit)
    \/ \E primary_tool \in ToolNames : CallGetExecutionPlan(primary_tool)
    \/ \E user_query \in Queries, primary_tool \in PrimaryTools :
          CallCreateExecutionPlan(user_query, Some(primary_tool))
    \/ \E user_query \in Queries : CallCreateExecutionPlan(user_query, None)
    \/ \E category \in ToolCategory : CallGetToolsByCategory(category)
    \/ \E user_query \in Queries : CallGetToolSuggestions(user_query)
    \/ \E query \in Queries : CallAnalyzeQueryIntent(query)
    \/ TakeResult

Spec == Init /\ [][Next]_vars

(***************************************************************************)
(* The caller's writes to returned values.  A Python list is held by       *)
(* reference: a returned dict whose value is a list of a ToolMetadata      *)
(* holds that very list.                                                   *)
(***************************************************************************)
(* the name a caller appends to a list, or writes into a step *)
AppendedName == "injected_tool"

(* the ToolMetadata lists a returned value holds by reference, as          *)
(* <<tool name, field>>: plan["helper_tools"] is tool.helper_tools, and a  *)
(* suggestion holds tool.required_params and tool.helper_tools             *)
SharedLists(result) ==
    IF result.op = "get_execution_plan" /\ "helper_tools" \in DOMAIN result.value
    THEN {<<result.value.primary_tool, "helper_tools">>}
    ELSE IF result.op = "get_tool_suggestions_for_query"
    THEN {<<result.value.primary_suggestions[i].tool_name, f>> :
             i \in DOMAIN result.value.primary_suggestions,
             f \in {"required_params", "helper_tools"}}
    ELSE {}

(* a returned plan dict, its shared list read in the registry t *)
PlanView(plan, t) ==
    IF "helper_tools" \in DOMAIN plan
    THEN [plan EXCEPT !.helper_tools = DictGet(t, plan.primary_tool).helper_tools]
    ELSE plan

(* a returned suggestion, its shared lists read in the registry t *)
SuggestionView(suggestion, t) ==
    [suggestion EXCEPT
        !.required_params = DictGet(t, suggestion.tool_name).required_params,
        !.helper_tools = DictGet(t, suggestion.tool_name).helper_tools,
        !.execution_plan = PlanView(suggestion.execution_plan, t)]

(* a returned value, its shared lists read in the registry t *)
ResultView(result, t) ==
    IF result.op = "get_execution_plan"
    THEN [result EXCEPT !.value = PlanView(result.value, t)]
    ELSE IF result.op = "get_tool_suggestions_for_query"
    THEN [result EXCEPT !.value.primary_suggestions =
            [i \in DOMAIN result.value.primary_suggestions |->
                SuggestionView(result.value.primary_suggestions[i], t)]]
    ELSE result

(* the number of elements in the lists of the metadata of metas *)
RECURSIVE ListLengths(_)
ListLengths(metas) ==
    IF metas = <<>> THEN 0
    ELSE Len(Head(metas).required_params) + Len(Head(metas).helper_tools)
         + ListLengths(Tail(metas))

(* the caller appends to a list of the value it holds: list.append on the *)
(* list object shared with the registry                                    *)
CallerAppends(name, field) ==
    /\ <<name, field>> \in SharedLists(ret)
    /\ ListLengths(DictValues(tools)) < ListLengths(registered) + MaxMutations
    /\ tools' = [tools EXCEPT !.vals[name][field] = Append(@, AppendedName)]
    /\ ret' = ResultView(ret, tools')
    /\ UNCHANGED <<category_map, execution_context, registered, fetch_vars>>

(* the caller assigns to an attribute of a returned ExecutionStep, an      *)
(* object created for this call                                            *)
CallerEditsStep(i) ==
    /\ ret.op = "create_execution_plan"
    /\ i \in DOMAIN ret.value
    /\ ret.value[i].tool_name # AppendedName
    /\ ret' = [ret EXCEPT !.value[i].tool_name = AppendedName]
    /\ UNCHANGED <<tools, category_map, execution_context, registered, fetch_vars>>

(* names asked of get_execution_plan by the caller that writes *)
AliasTools == {"send_email", "create_note", "no_such_tool"}

(* the calls whose results the claim is about, and a caller that writes to *)
(* what it was handed                                                      *)
NextAlias ==
    \/ \E primary_tool \in AliasTools : CallGetExecutionPlan(primary_tool)
    \/ \E user_query \in Queries : CallCreateExecutionPlan(user_query, None)
    \/ \E user_query \in Queries : CallGetToolSuggestions(user_query)
    \/ \E name \in ToSet(tools.keys), field \in {"required_params", "helper_tools"} :
          CallerAppends(name, field)
    \/ \E i \in 1..3 : CallerEditsStep(i)
    \/ TakeResult

SpecAlias == Init /\ [][NextAlias]_vars

(* the program as it runs: nothing calls register_tool after construction *)
NextCatalog ==
    \/ \E user_query \in Queries, limit \in Limits :
          CallFindRelevantTools(user_query, limit)
    \/ \E primary_tool \in ToolNames : CallGetExecutionPlan(primary_tool)
    \/ \E user_query \in Queries, primary_tool \in PrimaryTools :
          CallCreateExecutionPlan(user_query, Some(primary_tool))
    \/ \E user_query \in Queries : CallCreateExecutionPlan(user_query, None)
    \/ \E category \in ToolCategory : CallGetToolsByCategory(category)
    \/ \E user_query \in Queries : CallGetToolSuggestions(user_query)
    \/ \E query \in Queries : CallAnalyzeQueryIntent(query)
    \/ TakeResult

SpecCatalog == Init /\ [][NextCatalog]_vars

(* _analyze_query_intent alone, on the queries made of IntentWords *)
NextIntent ==
    \/ \E query \in IntentQueries : CallAnalyzeQueryIntent(query)
    \/ TakeResult

SpecIntent == Init /\ [][NextIntent]_vars

(***************************************************************************)
(* fetch_users as the event loop runs it: a call runs up to its await and  *)
(* resumes when the response has arrived; other calls run in between       *)
(***************************************************************************)
(* the "data" lists the users endpoint answers with: an active user with   *)
(* spaces around the name, an inactive user, users without name or id, the *)
(* same name twice in different case                                       *)
UserReplies ==
    { << [userstatus |-> 0, name |-> " Sean Ray ", id |-> 7],
         [userstatus |-> 1, name |-> "Old Hand", id |-> 8],
         [userstatus |-> 0, id |-> 9],
         [userstatus |-> 0, name |-> "No Id"] >>,
      << [userstatus |-> 0, name |-> "Ana Diaz", id |-> 10],
         [userstatus |-> 0, name |-> "sean ray", id |-> 7],
         [userstatus |-> 0, name |-> "ANA DIAZ", id |-> 11] >> }

(* the call starts: the cache is returned if it is set, else the request   *)
(* is sent and the call waits for the response                             *)
fetch_users_start(t) ==
    /\ pc[t] = "idle"
    /\ IF user_map_cache # None
       THEN /\ returned' = [returned EXCEPT ![t] = user_map_cache]
            /\ pc' = [pc EXCEPT ![t] = "done"]
            /\ UNCHANGED http_requests
       ELSE /\ http_requests' = http_requests + 1
            /\ pc' = [pc EXCEPT ![t] = "awaiting"]
            /\ UNCHANGED returned
    /\ UNCHANGED <<user_map_cache, tools, category_map, execution_context, registered, ret>>

(* the response has arrived: the map is built, stored in the cache and     *)
(* returned                                                                *)
fetch_users_resume(t, data) ==
    /\ pc[t] = "awaiting"
    /\ user_map_cache' = Some(UserMap(EmptyDict, data))
    /\ returned' = [returned EXCEPT ![t] = Some(UserMap(EmptyDict, data))]
    /\ pc' = [pc EXCEPT ![t] = "done"]
    /\ UNCHANGED <<http_requests, tools, category_map, execution_context, registered, ret>>

(* the request fails or raise_for_status raises: the call ends with the    *)
(* exception and the cache is not written                                  *)
fetch_users_raises(t) ==
    /\ pc[t] = "awaiting"
    /\ pc' = [pc EXCEPT ![t] = "raised"]
    /\ UNCHANGED <<user_map_cache, http_requests, returned, tools, category_map, execution_context, registered, ret>>

NextFetch ==
    \/ \E t \in Tasks : fetch_users_start(t)
    \/ \E t \in Tasks, data \in UserReplies : fetch_users_resume(t, data)
    \/ \E t \in Tasks : fetch_users_raises(t)

SpecFetch == Init /\ [][NextFetch]_vars

(***************************************************************************)
(* Vocabulary of the properties, read off the history of register_tool     *)
(* calls and not off the registry's own maps                               *)
(***************************************************************************)

RegisteredNames == {registered[i].name : i \in DOMAIN registered}

IsRegistered(name) == name \in RegisteredNames

(* the metadata most recently registered under name *)
Declared(name) ==
    registered[Max({i \in DOMAIN registered : registered[i].name = name})]

(* the position of the first registration of name *)
FirstRegistered(name) ==
    Min({i \in DOMAIN registered : registered[i].name = name})

(* the names registered more than once *)
ReRegistered == {n \in RegisteredNames :
                   Cardinality({i \in DOMAIN registered : registered[i].name = n}) > 1}

(* whether an execution_order entry asks for confirmation, as its reader sees it *)
EntryConfirms(entry) ==
    "requires_confirmation" \in DOMAIN entry /\ entry.requires_confirmation

(* <<score, name>> for every registered name, scored on its latest metadata *)
ScoredNames(user_query) ==
    {<<Score(Declared(n), user_query), n>> : n \in RegisteredNames}

(* the registered names whose tool has a positive score for the query *)
PositiveNames(user_query) ==
    {p[2] : p \in {r \in ScoredNames(user_query) : r[1] > 0}}

(* the highest-scoring registered tool, the earliest registered among equals *)
BestName(user_query) ==
    LET positive == {r \in ScoredNames(user_query) : r[1] > 0}
        best == CHOOSE p \in positive :
                    \A r \in positive :
                        \/ p[1] > r[1]
                        \/ p[1] = r[1] /\ FirstRegistered(p[2]) <= FirstRegistered(r[2])
    IN best[2]

(* the registered names that share the highest score for the query *)
TopNames(user_query) ==
    LET positive == {r \in ScoredNames(user_query) : r[1] > 0}
    IN {p[2] : p \in {r \in positive : \A o \in positive : r[1] >= o[1]}}

(* the score the scoring rule of the specification gives a tool for a query *)
RuleScore(tool, user_query) ==
    LET q == Lower(user_query)
        hits == {i \in DOMAIN tool.keywords : Contains(q, Lower(tool.keywords[i]))}
        desc == ToSet(Split(Lower(tool.description)))
        shared == {w \in ToSet(Split(q)) : w \in desc}
        acts == {w \in {"create", "add", "schedule", "send", "search", "find",
                        "get", "show"} :
                    Contains(q, w) /\ Contains(Lower(tool.name), w)}
    IN 3 * Cardinality(hits) + Cardinality(shared) + 5 * Cardinality(acts)

(* the steps of an execution_order, each with its tool and whether it asks *)
(* for confirmation                                                        *)
StepsOfOrder(plan) ==
    IF "execution_order" \in DOMAIN plan
    THEN [i \in DOMAIN plan.execution_order |->
            [name |-> plan.execution_order[i].tool,
             confirms |-> EntryConfirms(plan.execution_order[i])]]
    ELSE <<>>

(* the same reading of a list of ExecutionStep *)
StepsOfList(steps) ==
    [i \in DOMAIN steps |->
        [name |-> steps[i].tool_name, confirms |-> steps[i].requires_confirmation]]

(* every plan the returned value holds: the plan of get_execution_plan, the *)
(* steps of create_execution_plan, the plan of each suggestion             *)
ReturnedPlans ==
    IF ret.op = "get_execution_plan" THEN {StepsOfOrder(ret.value)}
    ELSE IF ret.op = "create_execution_plan" THEN {StepsOfList(ret.value)}
    ELSE IF ret.op = "get_tool_suggestions_for_query"
    THEN {StepsOfOrder(ret.value.primary_suggestions[i].execution_plan) :
             i \in DOMAIN ret.value.primary_suggestions}
    ELSE {}

(* whether the call asked for the plan of the named tool *)
AskedPlanOf(name) ==
    \/ ret.op = "get_execution_plan" /\ ret.primary_tool = name
    \/ ret.op = "create_execution_plan" /\ ret.primary_tool = Some(name)

(* the intents of the specification and the trigger substrings of each *)
Intents == {"search", "create", "report", "email", "meeting"}

Triggers(intent) ==
    CASE intent = "search" -> {"find", "search", "show", "list", "get", "who", "which"}
      [] intent = "create" -> {"create", "add", "make", "schedule", "send"}
      [] intent = "report" -> {"report", "analytics", "how many", "count",
                               "performance", "metrics"}
      [] intent = "email" -> {"email", "send", "message", "contact", "reach out"}
      [] intent = "meeting" -> {"meeting", "schedule", "appointment", "interview", "call"}

(* whether the lowercased query contains a trigger substring of the intent *)
Triggered(intent, query) ==
    \E trigger \in Triggers(intent) : Contains(Lower(query), trigger)

(***************************************************************************)
(* Properties                                                              *)
(***************************************************************************)
(* C1: for a registered tool T with helpers h1..hk, get_execution_plan(T)  *)
(* returns an execution_order of k+1 entries h1, ..., hk, T; each helper   *)
(* entry does not ask for confirmation and has the purpose "Get required   *)
(* data for T"; the last entry is T with T's declared confirmation flag.   *)
C1_PlanOrder ==
    (ret.op = "get_execution_plan" /\ IsRegistered(ret.primary_tool)) =>
        LET T == Declared(ret.primary_tool)
            k == Len(T.helper_tools)
        IN /\ "execution_order" \in DOMAIN ret.value
           /\ Len(ret.value.execution_order) = k + 1
           /\ \A i \in 1..k :
                 /\ ret.value.execution_order[i].tool = T.helper_tools[i]
                 /\ ~EntryConfirms(ret.value.execution_order[i])
                 /\ ret.value.execution_order[i].purpose =
                       "Get required data for " \o ret.primary_tool
           /\ ret.value.execution_order[k + 1].tool = ret.primary_tool
           /\ EntryConfirms(ret.value.execution_order[k + 1]) = T.requires_confirmation

(* a plan was returned for a confirming tool with at least two helpers *)
C1_Witness ==
    /\ ret.op = "get_execution_plan"
    /\ IsRegistered(ret.primary_tool)
    /\ Len(Declared(ret.primary_tool).helper_tools) >= 2
    /\ Declared(ret.primary_tool).requires_confirmation
    /\ Len(ret.value.execution_order) >= 3

(* C2: get_execution_plan of a name that was never registered returns the  *)
(* not-found error and nothing of a plan, whatever was registered before.  *)
C2_NotFound ==
    (ret.op = "get_execution_plan" /\ ~IsRegistered(ret.primary_tool)) =>
        /\ DOMAIN ret.value = {"error"}
        /\ ret.value.error = "Tool " \o ret.primary_tool \o " not found"

(* an unknown name was asked for after further tools had been registered *)
C2_Witness ==
    /\ ret.op = "get_execution_plan"
    /\ ~IsRegistered(ret.primary_tool)
    /\ Len(registered) > Len(ExistingTools)
    /\ "error" \in DOMAIN ret.value

(* C3: create_execution_plan with a primary_tool that is not registered    *)
(* hands the caller a not-found error, which differs from the empty plan   *)
(* returned when no tool is relevant.                                      *)
C3_NotFoundSurfaced ==
    (/\ ret.op = "create_execution_plan"
     /\ Truthy(ret.primary_tool)
     /\ ~IsRegistered(ret.primary_tool[1])) =>
        /\ ret.value # <<>>
        /\ "error" \in DOMAIN ret.value

(* C4: every tool find_relevant_tools returns is a registered tool with a  *)
(* positive score for the query, none is returned twice, and up to the     *)
(* limit every registered tool of positive score is returned.              *)
C4_NoZeroScore ==
    ret.op = "find_relevant_tools" =>
        LET positive == PositiveNames(ret.user_query)
        IN /\ \A i \in DOMAIN ret.value :
                 /\ ret.value[i].name \in positive
                 /\ ret.value[i] = Declared(ret.value[i].name)
                 /\ Score(ret.value[i], ret.user_query) > 0
           /\ \A i, j \in DOMAIN ret.value :
                 ret.value[i].name = ret.value[j].name => i = j
           /\ ret.limit >= 0 =>
                 Len(ret.value) = Min({ret.limit, Cardinality(positive)})

(* a search returned every tool of positive score, fewer than the limit,   *)
(* while other registered tools score 0                                    *)
C4_Witness ==
    /\ ret.op = "find_relevant_tools"
    /\ ret.value # <<>>
    /\ Len(ret.value) < ret.limit
    /\ PositiveNames(ret.user_query) # RegisteredNames

(* C5: find_relevant_tools(query, n) returns at most n tools, and none     *)
(* when n is 0 or negative.                                                *)
C5_AtMostLimit ==
    ret.op = "find_relevant_tools" =>
        /\ ret.limit > 0 => Len(ret.value) <= ret.limit
        /\ ret.limit <= 0 => ret.value = <<>>

(* C6: the tools find_relevant_tools returns are in non-increasing order   *)
(* of score, and tools of equal score are in the order of the first        *)
(* registration of their names, also when a name was registered again.     *)
C6_SortedStable ==
    ret.op = "find_relevant_tools" =>
        \A i, j \in DOMAIN ret.value :
            i < j =>
                /\ Score(ret.value[i], ret.user_query) >= Score(ret.value[j], ret.user_query)
                /\ Score(ret.value[i], ret.user_query) = Score(ret.value[j], ret.user_query)
                      => FirstRegistered(ret.value[i].name) < FirstRegistered(ret.value[j].name)

(* two returned tools have equal score and the earlier one was registered  *)
(* again after the later one was first registered                          *)
C6_Witness ==
    /\ ret.op = "find_relevant_tools"
    /\ \E i, j \in DOMAIN ret.value :
          /\ i < j
          /\ Score(ret.value[i], ret.user_query) = Score(ret.value[j], ret.user_query)
          /\ ret.value[i].name \in ReRegistered
          /\ \E r \in DOMAIN registered :
                /\ registered[r].name = ret.value[i].name
                /\ r > FirstRegistered(ret.value[j].name)

(* C7: the score of every registered tool for the query of a search is     *)
(* 3 x (keyword entries, with multiplicity, found in the query without     *)
(* regard to case) + (distinct lowercased words shared by description and  *)
(* query) + 5 x (action words found in both the query and the tool name).  *)
C7_ScoreRule ==
    ret.op = "find_relevant_tools" =>
        \A n \in RegisteredNames :
            Score(Declared(n), ret.user_query) = RuleScore(Declared(n), ret.user_query)

(* a search was scored against a tool whose keyword list holds the same    *)
(* keyword twice, both found, with shared words and an action word: 6+4+5  *)
C7_Witness ==
    /\ ret.op = "find_relevant_tools"
    /\ ret.user_query = "send email to  candidates\tor contacts"
    /\ IsRegistered("send_offer")
    /\ Declared("send_offer").keywords = <<"Send", "send">>
    /\ Score(Declared("send_offer"), ret.user_query) = 15
    /\ \E i \in DOMAIN ret.value : ret.value[i].name = "send_offer"

(* C8: for a supplied, registered primary_tool, create_execution_plan      *)
(* returns one step per entry of get_execution_plan(primary_tool)'s        *)
(* execution_order, in order, with the entry's tool and purpose, empty     *)
(* params, store_as = tool + "_result" and the entry's confirmation flag,  *)
(* which is false for the helper steps.                                    *)
C8_StepsMirrorPlan ==
    (/\ ret.op = "create_execution_plan"
     /\ Truthy(ret.primary_tool)
     /\ IsRegistered(ret.primary_tool[1])) =>
        LET order == get_execution_plan(ret.primary_tool[1], ret.user_query).execution_order
        IN /\ Len(ret.value) = Len(order)
           /\ \A i \in DOMAIN order :
                 /\ ret.value[i].tool_name = order[i].tool
                 /\ ret.value[i].purpose = order[i].purpose
                 /\ ret.value[i].params = <<>>
                 /\ ret.value[i].store_as = order[i].tool \o "_result"
                 /\ ret.value[i].requires_confirmation = EntryConfirms(order[i])
                 /\ i < Len(order) => ~ret.value[i].requires_confirmation

(* steps were built for a confirming tool with helpers: the last step      *)
(* confirms                                                                *)
C8_Witness ==
    /\ ret.op = "create_execution_plan"
    /\ Truthy(ret.primary_tool)
    /\ IsRegistered(ret.primary_tool[1])
    /\ Len(ret.value) >= 3
    /\ ret.value[Len(ret.value)].requires_confirmation

(* C9: without a primary_tool, when some registered tool has a positive    *)
(* score, the plan is not empty, its last step is the highest-scoring tool *)
(* (the earliest registered among equal top scores) and the steps before   *)
(* it are exactly that tool's helpers, in order.                           *)
C9_BestToolPlanned ==
    (/\ ret.op = "create_execution_plan"
     /\ ret.primary_tool = None
     /\ PositiveNames(ret.user_query) # {}) =>
        LET best == BestName(ret.user_query)
            helpers == Declared(best).helper_tools
        IN /\ ret.value # <<>>
           /\ Len(ret.value) = Len(helpers) + 1
           /\ ret.value[Len(ret.value)].tool_name = best
           /\ \A i \in DOMAIN helpers : ret.value[i].tool_name = helpers[i]

(* a plan was made without a primary_tool while two tools shared the top   *)
(* score                                                                   *)
C9_Witness ==
    /\ ret.op = "create_execution_plan"
    /\ ret.primary_tool = None
    /\ Cardinality(TopNames(ret.user_query)) >= 2
    /\ Len(ret.value) >= 2

(* C10: without a primary_tool, when no registered tool has a positive     *)
(* score, the result is the empty sequence of steps, not an error.         *)
C10_EmptyPlan ==
    (/\ ret.op = "create_execution_plan"
     /\ ret.primary_tool = None
     /\ PositiveNames(ret.user_query) = {}) =>
        ret.value = <<>>

(* a plan was asked for a non-empty query that matches no registered tool  *)
C10_Witness ==
    /\ ret.op = "create_execution_plan"
    /\ ret.primary_tool = None
    /\ ret.user_query # ""
    /\ PositiveNames(ret.user_query) = {}
    /\ ret.value = <<>>

(* C11: in the built-in catalog every returned plan that has a send_email  *)
(* step has a preview_email step before it, the send_email step asks for   *)
(* confirmation and no other step of the plan does; a plan asked for       *)
(* send_email has that step.                                               *)
C11_PreviewBeforeSend ==
    /\ AskedPlanOf("send_email") =>
          \A plan \in ReturnedPlans : \E j \in DOMAIN plan : plan[j].name = "send_email"
    /\ \A plan \in ReturnedPlans :
          \A j \in DOMAIN plan :
             plan[j].name = "send_email" =>
                /\ \E i \in 1..(j - 1) : plan[i].name = "preview_email"
                /\ plan[j].confirms
                /\ \A i \in DOMAIN plan : plan[i].confirms => i = j

(* send_email is chosen for a query and its three steps are returned *)
C11_Witness ==
    /\ ret.op = "create_execution_plan"
    /\ ret.primary_tool = None
    /\ Len(ret.value) = 3
    /\ ret.value[2].tool_name = "preview_email"
    /\ ret.value[3].tool_name = "send_email"
    /\ ret.value[3].requires_confirmation

(* C12: in the catalog built at startup every name in a tool's helper_tools *)
(* is a registered name, and every step of every plan returned by          *)
(* get_execution_plan or create_execution_plan names a registered tool.    *)
C12_HelpersRegistered ==
    /\ \A n \in RegisteredNames : ToSet(Declared(n).helper_tools) \subseteq RegisteredNames
    /\ (ret.op \in {"get_execution_plan", "create_execution_plan"}) =>
          \A plan \in ReturnedPlans :
             \A i \in DOMAIN plan : plan[i].name \in RegisteredNames

(* C13: the registered names are exactly the names of the exposed tools,   *)
(* and each entry's required_params are the parameters of the tool that    *)
(* have no default.                                                        *)
C13_CatalogMirrorsTools ==
    /\ RegisteredNames = {e.name : e \in ExposedTools}
    /\ \A e \in ExposedTools :
          e.name \in RegisteredNames => Declared(e.name).required_params = e.required

(* C14: when get_tools_by_category is asked for the category of the tool   *)
(* registered last, the returned sequence contains that tool exactly once, *)
(* as its last element (it is the latest registration of the category);    *)
(* this includes a tool whose name was registered before.                  *)
C14_ListedOnce ==
    LET last == registered[Len(registered)]
    IN (ret.op = "get_tools_by_category" /\ ret.category = last.category) =>
          /\ Cardinality({i \in DOMAIN ret.value : ret.value[i].name = last.name}) = 1
          /\ ret.value[Len(ret.value)].name = last.name

(* C15: registering under a registered name keeps the number of distinct   *)
(* tools and the last registration wins: the name map has one entry per    *)
(* registered name, holding the metadata registered last; a plan for a     *)
(* registered name is built from that metadata and find_relevant_tools     *)
(* returns only such metadata; register_tool returns without an error.     *)
C15_LastWins ==
    /\ Len(tools.keys) = Cardinality(RegisteredNames)
    /\ ToSet(tools.keys) = RegisteredNames
    /\ \A n \in RegisteredNames : DictGet(tools, n) = Declared(n)
    /\ ret.op = "register_tool" => DOMAIN ret = {"op", "metadata"}
    /\ (ret.op = "get_execution_plan" /\ IsRegistered(ret.primary_tool)) =>
          LET T == Declared(ret.primary_tool)
          IN /\ "error" \notin DOMAIN ret.value
             /\ ret.value.helper_tools = T.helper_tools
             /\ ret.value.requires_confirmation = T.requires_confirmation
             /\ ret.value.typical_pattern = T.typical_usage_pattern
             /\ Len(ret.value.execution_order) = Len(T.helper_tools) + 1
    /\ ret.op = "find_relevant_tools" =>
          /\ \A i \in DOMAIN ret.value : ret.value[i] = Declared(ret.value[i].name)
          /\ \A i, j \in DOMAIN ret.value :
                ret.value[i].name = ret.value[j].name => i = j

(* a plan is returned for a name whose second registration changed its  *)
(* helper list                                                           *)
C15_Witness ==
    /\ ret.op = "get_execution_plan"
    /\ ret.primary_tool \in ReRegistered
    /\ registered[FirstRegistered(ret.primary_tool)] # Declared(ret.primary_tool)
    /\ ret.value.helper_tools = <<"global_search">>

C17_NoReferenceIntoRegistry ==
    /\ ToSet(tools.keys) = RegisteredNames
    /\ \A n \in RegisteredNames : DictGet(tools, n) = Declared(n)

(* C18: get_tool_suggestions_for_query(q) returns at most 3 suggestions,   *)
(* for the tools of find_relevant_tools(q, 3) in that order; the           *)
(* execution_plan of each suggestion is the plan get_execution_plan gives  *)
(* for the suggestion's own tool, never an error, and its helper tools and *)
(* confirmation flag are those of the suggestion.                          *)
C18_SuggestionsFollowFind ==
    ret.op = "get_tool_suggestions_for_query" =>
        LET suggestions == ret.value.primary_suggestions
            found == find_relevant_tools(ret.user_query, 3)
        IN /\ Len(suggestions) <= 3
           /\ Len(suggestions) = Len(found)
           /\ \A i \in DOMAIN suggestions :
                 LET plan == suggestions[i].execution_plan
                 IN /\ suggestions[i].tool_name = found[i].name
                    /\ "error" \notin DOMAIN plan
                    /\ plan = get_execution_plan(suggestions[i].tool_name, ret.user_query)
                    /\ plan.primary_tool = suggestions[i].tool_name
                    /\ plan.helper_tools = suggestions[i].helper_tools
                    /\ plan.requires_confirmation = suggestions[i].requires_confirmation
                    /\ plan.execution_order[Len(plan.execution_order)].tool
                          = suggestions[i].tool_name

(* more than three tools are relevant, three are suggested, and one of    *)
(* them confirms and has helpers                                          *)
C18_Witness ==
    /\ ret.op = "get_tool_suggestions_for_query"
    /\ Cardinality(PositiveNames(ret.user_query)) > 3
    /\ Len(ret.value.primary_suggestions) = 3
    /\ \E i \in DOMAIN ret.value.primary_suggestions :
          /\ ret.value.primary_suggestions[i].requires_confirmation
          /\ ret.value.primary_suggestions[i].helper_tools # <<>>

(* C19: _analyze_query_intent lists an intent of search, create, report,   *)
(* email, meeting exactly when the lowercased query contains one of the    *)
(* intent's trigger substrings, each intent at most once; a query with     *)
(* "schedule" gets create and meeting, a query with "send" gets create and *)
(* email.                                                                  *)
C19_IntentsByTrigger ==
    ret.op = "analyze_query_intent" =>
        LET intents == ret.value.intents
        IN /\ ToSet(intents) \subseteq Intents
           /\ \A intent \in Intents :
                 (intent \in ToSet(intents)) <=> Triggered(intent, ret.query)
           /\ \A i, j \in DOMAIN intents : intents[i] = intents[j] => i = j
           /\ Contains(Lower(ret.query), "schedule") =>
                 {"create", "meeting"} \subseteq ToSet(intents)
           /\ Contains(Lower(ret.query), "send") =>
                 {"create", "email"} \subseteq ToSet(intents)

(* a query with a capitalised "Schedule" and "send": create, email, meeting *)
C19_Witness ==
    /\ ret.op = "analyze_query_intent"
    /\ Contains(ret.query, "Schedule")
    /\ Contains(ret.query, "send")
    /\ ret.value.intents = <<"create", "email", "meeting">>

(* C20: the complexity _analyze_query_intent returns is "high" when more   *)
(* than one intent was detected and "low" otherwise.                       *)
C20_ComplexityByCount ==
    ret.op = "analyze_query_intent" =>
        LET triggered == {intent \in Intents : Triggered(intent, ret.query)}
        IN /\ ret.value.complexity \in {"high", "low"}
           /\ ret.value.complexity = "high" <=> Len(ret.value.intents) > 1
           /\ ret.value.complexity = "high" <=> Cardinality(triggered) > 1

(* exactly one intent is detected and the complexity is low *)
C20_Witness ==
    /\ ret.op = "analyze_query_intent"
    /\ Len(ret.value.intents) = 1
    /\ ret.value.complexity = "low"

(* C21 as stated: _analyze_query_intent returns complexity "low" only if   *)
(* exactly one intent matched the query.                                   *)
C21_LowOnlyIfOneIntent ==
    (ret.op = "analyze_query_intent" /\ ret.value.complexity = "low") =>
        /\ Len(ret.value.intents) = 1
        /\ Cardinality({intent \in Intents : Triggered(intent, ret.query)}) = 1

(* C21 as amended: complexity is "low" only if at most one intent matched  *)
(* the query, and it is "low" when none matched.                           *)
C21_LowOnlyIfAtMostOneIntent ==
    ret.op = "analyze_query_intent" =>
        LET matched == {intent \in Intents : Triggered(intent, ret.query)}
        IN /\ ret.value.complexity = "low" =>
                 Cardinality(matched) <= 1 /\ Len(ret.value.intents) <= 1
           /\ matched = {} => ret.value.complexity = "low"

(* a query that matches no intent is returned with complexity low *)
C21_Witness ==
    /\ ret.op = "analyze_query_intent"
    /\ ret.query # ""
    /\ ret.value.intents = <<>>
    /\ ret.value.complexity = "low"

(* C22: for "How many placements did Sean make last year?" the intents     *)
(* include "report" and the time_range includes "year" and "last".         *)
C22_PlacementsQuery ==
    (ret.op = "analyze_query_intent"
        /\ ret.query = "How many placements did Sean make last year?") =>
        /\ "report" \in ToSet(ret.value.intents)
        /\ {"year", "last"} \subseteq ToSet(ret.value.entities.time_range)

(* the query has been analysed: create (by "make") and report are its     *)
(* intents, year and last its times                                        *)
C22_Witness ==
    /\ ret.op = "analyze_query_intent"
    /\ ret.query = "How many placements did Sean make last year?"
    /\ ret.value.intents = <<"create", "report">>
    /\ ret.value.entities.time_range = <<"year", "last">>

(* C23: the time_range of a query holds a time keyword exactly when it is  *)
(* a substring of the lowercased query, each at most once, and in the      *)
(* order of the list yesterday, today, tomorrow, week, month, year, last,  *)
(* this, next, wherever the keywords occur in the query.                   *)
C23_TimeRange ==
    ret.op = "analyze_query_intent" =>
        LET time_range == ret.value.entities.time_range
            order == <<"yesterday", "today", "tomorrow", "week", "month", "year",
                       "last", "this", "next">>
            place(k) == CHOOSE i \in DOMAIN order : order[i] = k
        IN /\ ToSet(time_range) \subseteq ToSet(order)
           /\ \A i \in DOMAIN order :
                 (order[i] \in ToSet(time_range)) <=> Contains(Lower(ret.query), order[i])
           /\ \A i, j \in DOMAIN time_range :
                 i < j => place(time_range[i]) < place(time_range[j])

(* "Next" is written with a capital and before "year" in the query; the   *)
(* time_range lists year first                                            *)
C23_Witness ==
    /\ ret.op = "analyze_query_intent"
    /\ ret.query = "Next year"
    /\ ret.value.entities.time_range = <<"year", "next">>

(* C24: on the built-in catalog find_relevant_tools("create meeting with   *)
(* John", limit) with limit >= 1 returns create_meeting first, and          *)
(* create_meeting scores at least 8 for the query: 3 for the keyword        *)
(* "meeting" and 5 for the action word "create".                            *)
C24_CreateMeetingFirst ==
    (ret.op = "find_relevant_tools" /\ ret.user_query = "create meeting with John"
        /\ ret.limit >= 1) =>
        /\ ret.value # <<>>
        /\ ret.value[1].name = "create_meeting"
        /\ Score(ret.value[1], ret.user_query) >= 8
        /\ KeywordScore(<<"meeting">>, Lower(ret.user_query)) = 3
        /\ ActionScore(<<"create">>, ret.value[1].name, Lower(ret.user_query)) = 5

(* the query was searched with the default limit and create_meeting leads  *)
(* five results                                                            *)
C24_Witness ==
    /\ ret.op = "find_relevant_tools"
    /\ ret.user_query = "create meeting with John"
    /\ ret.limit = 5
    /\ Len(ret.value) = 5
    /\ ret.value[1].name = "create_meeting"

(* C25: on the built-in catalog find_relevant_tools("", 5) returns the     *)
(* empty sequence, and no tool has a positive score for the empty query.   *)
C25_EmptyQuery ==
    /\ (ret.op = "find_relevant_tools" /\ ret.user_query = "" /\ ret.limit = 5) =>
          ret.value = <<>>
    /\ ret.op = "find_relevant_tools" /\ ret.user_query = "" =>
          \A n \in RegisteredNames : Score(DictGet(tools, n), "") = 0

(* the empty query was searched with limit 5 *)
C25_Witness ==
    /\ ret.op = "find_relevant_tools"
    /\ ret.user_query = ""
    /\ ret.limit = 5
    /\ ret.value = <<>>

(* C26: in the plan for create_meeting the first step is the entity search *)
(* (global_search), the calendar check (check_calendar_meetings) comes     *)
(* before the Google Meet link (create_gmeet_link), and create_meeting is  *)
(* the last step, as the tool's usage pattern declares.                    *)
C26_MeetingPlanFollowsPattern ==
    AskedPlanOf("create_meeting") =>
        \A plan \in ReturnedPlans :
            /\ plan # <<>>
            /\ plan[1].name = "global_search"
            /\ plan[Len(plan)].name = "create_meeting"
            /\ \E i, j \in DOMAIN plan :
                  /\ i < j
                  /\ plan[i].name = "check_calendar_meetings"
                  /\ plan[j].name = "create_gmeet_link"

(* C27: in the built-in catalog, every step of a plan returned by          *)
(* get_execution_plan or create_execution_plan whose tool is registered    *)
(* with requires_confirmation = True asks for confirmation.                *)
C27_ConfirmingToolsConfirm ==
    (ret.op \in {"get_execution_plan", "create_execution_plan"}) =>
        \A plan \in ReturnedPlans :
            \A i \in DOMAIN plan :
                (IsRegistered(plan[i].name) /\ Declared(plan[i].name).requires_confirmation)
                    => plan[i].confirms

(* create_execution_plan chose create_meeting for a query: four helper     *)
(* steps that do not confirm, then the confirming step                     *)
C27_Witness ==
    /\ ret.op = "create_execution_plan"
    /\ ret.primary_tool = None
    /\ Len(ret.value) = 5
    /\ ret.value[5].tool_name = "create_meeting"
    /\ ret.value[5].requires_confirmation
    /\ \A i \in 1..4 : ~ret.value[i].requires_confirmation

(* C28: every ToolMetadata returned by get_tools_by_category(c) has        *)
(* category c, and every registered name is in the list of exactly one     *)
(* category.                                                               *)
C28_OneCategoryPerName ==
    /\ ret.op = "get_tools_by_category" =>
          \A i \in DOMAIN ret.value : ret.value[i].category = ret.category
    /\ \A n \in RegisteredNames :
          Cardinality({c \in ToolCategory : n \in ToSet(category_map[c])}) = 1

(* C29: create_execution_plan(q, "") returns what it returns when no       *)
(* primary tool is given: the steps for the best tool of                   *)
(* find_relevant_tools(q, 1), ending in that tool, or no steps when no     *)
(* tool is relevant; the empty name is never looked up.                    *)
C29_EmptyNameIsNone ==
    (ret.op = "create_execution_plan" /\ ret.primary_tool = Some("")) =>
        /\ ret.value = create_execution_plan(ret.user_query, None)
        /\ PositiveNames(ret.user_query) = {} => ret.value = <<>>
        /\ PositiveNames(ret.user_query) # {} =>
              /\ ret.value # <<>>
              /\ ret.value[Len(ret.value)].tool_name = BestName(ret.user_query)
              /\ Len(ret.value) = Len(Declared(BestName(ret.user_query)).helper_tools) + 1

(* the empty name was given with a query that has a relevant tool *)
C29_Witness ==
    /\ ret.op = "create_execution_plan"
    /\ ret.primary_tool = Some("")
    /\ ret.value # <<>>
    /\ ret.value[Len(ret.value)].tool_name = BestName(ret.user_query)

(* C30: as long as no request has failed, the users endpoint has been      *)
(* requested at most once, and all finished calls of fetch_users have      *)
(* returned the mapping that is in the cache.                              *)
C30_OneRequest ==
    (\A t \in Tasks : pc[t] # "raised") =>
        /\ http_requests <= 1
        /\ \A t \in Tasks : pc[t] = "done" => returned[t] = user_map_cache

====
